---- MODULE Spec2Model ----
(***************************************************************************)
(* Model of atmPy/sizedistribution.py: the size-distribution data model    *)
(* (SizeDist, SizeDist_TS, SizeDist_LS), the representation converter      *)
(* _convert2otherDistribution, gap filling (fillGaps) and layer insertion  *)
(* (add_layer).                                                            *)
(*                                                                         *)
(* Numbers are exact.  A row key, a bin edge or an altitude is a rational  *)
(* [n, d]; a table value is a monomial  (n/d) * pi^p * ln(10)^l, which is  *)
(* closed under the multiplications and divisions the converter performs.  *)
(***************************************************************************)
EXTENDS Integers, Sequences, FiniteSets, TLC

VARIABLES
    heap,     \* conversion: the DataFrames alive, a sequence indexed by reference
    self,     \* conversion: the source SizeDist instance (its data is a reference)
    ret,      \* conversion: the instance returned by the last conversion of self
    ret2,     \* conversion: the instance returned by converting ret once more
    exc,      \* the exception raised by the last call, or "none"
    last,     \* the last call made, with its arguments
    ts,       \* gap filling: the instance under construction / constructed
    pre,      \* gap filling: the row table as it was before the last call
    ls,       \* layers: the SizeDist_LS host
    sdarg     \* layers: the sd instance the caller passed to the last add_layer

vars == <<heap, self, ret, ret2, exc, last, ts, pre, ls, sdarg>>

(***************************************************************************)
(* Bounds of the model.                                                    *)
(***************************************************************************)
MaxRows == 2        \* rows of a table handed to the converter
MaxVal  == 1        \* the first value of a table is drawn from 0..MaxVal
NBins   == 2        \* bins of every table (edges: NBins + 1)

None == [none |-> TRUE]

(***************************************************************************)
(* Exact arithmetic.                                                       *)
(***************************************************************************)
Abs(x) == IF x < 0 THEN -x ELSE x

RECURSIVE GCD(_, _)
GCD(a, b) == IF b = 0 THEN a ELSE GCD(b, a % b)

\* the rational n/d in lowest terms, d > 0
Reduce(n, d, g) == [n |-> n \div g, d |-> d \div g]
Rat(n, d) == IF d < 0 THEN Reduce(-n, -d, GCD(Abs(n), Abs(d))) ELSE Reduce(n, d, GCD(Abs(n), Abs(d)))

RInt(i)    == [n |-> i, d |-> 1]
RAdd(a, b) == Rat(a.n * b.d + b.n * a.d, a.d * b.d)
RSub(a, b) == Rat(a.n * b.d - b.n * a.d, a.d * b.d)
RMul(a, b) == Rat(a.n * b.n, a.d * b.d)
RDiv(a, b) == Rat(a.n * b.d, a.d * b.n)
RLess(a, b) == a.n * b.d < b.n * a.d
RLeq(a, b)  == a.n * b.d <= b.n * a.d

\* the monomial (n/d) * pi^p * ln(10)^l; zero has one representation
Mono(r, p, l) == [n |-> r.n, d |-> r.d, p |-> p, l |-> l]
Val(n, d, p, l) ==
    IF n = 0 THEN [n |-> 0, d |-> 1, p |-> 0, l |-> 0]
    ELSE Mono(Rat(n, d), p, l)

VInt(i)    == Val(i, 1, 0, 0)
VRat(r)    == Val(r.n, r.d, 0, 0)
VPi        == Val(1, 1, 1, 0)       \* np.pi
VLog10     == Val(1, 1, 0, 1)       \* np.log(10.)
VMul(a, b) == Val(a.n * b.n, a.d * b.d, a.p + b.p, a.l + b.l)
VDiv(a, b) == Val(a.n * b.d, a.d * b.n, a.p - b.p, a.l - b.l)
VSquare(a) == VMul(a, a)
VCube(a)   == VMul(a, VMul(a, a))

\* elementwise operations of two arrays of the same length
ArrMul(x, y) == [i \in 1..Len(x) |-> VMul(x[i], y[i])]
ArrDiv(x, y) == [i \in 1..Len(x) |-> VDiv(x[i], y[i])]

(***************************************************************************)
(* DataFrames: [index |-> row keys, rows |-> one array of NBins values per *)
(* key].  frame * array and frame / array broadcast the array over rows.   *)
(***************************************************************************)
FrameMul(f, a) == [index |-> f.index, rows |-> [r \in 1..Len(f.rows) |-> ArrMul(f.rows[r], a)]]
FrameDiv(f, a) == [index |-> f.index, rows |-> [r \in 1..Len(f.rows) |-> ArrDiv(f.rows[r], a)]]

(***************************************************************************)
(* SizeDist: construction of the derived arrays, and the per-bin factors.  *)
(***************************************************************************)
distTypes ==
    [ lognormal |-> {"dNdlogDp", "dSdlogDp", "dVdlogDp"},
      natural   |-> {"dNdDp", "dSdDp", "dVdDp"},
      number    |-> {"dNdlogDp", "dNdDp"},
      surface   |-> {"dSdlogDp", "dSdDp"},
      volume    |-> {"dVdlogDp", "dVdDp"} ]

AxisKinds == distTypes.lognormal \cup distTypes.natural
AllKinds  == AxisKinds \cup {"numberConcentration", "calibration"}

\* (bins[1:] + bins[:-1]) / 2.
bincentersOf(bins) == [i \in 1..(Len(bins) - 1) |-> RDiv(RAdd(bins[i + 1], bins[i]), RInt(2))]

\* a slip: the width taken as the upper edge
binwidthOf_upper(bins) == [i \in 1..(Len(bins) - 1) |-> bins[i + 1]]

\* (bins[1:] - bins[:-1])
binwidthOf(bins) == [i \in 1..(Len(bins) - 1) |-> RSub(bins[i + 1], bins[i])]

\* the fields SizeDist.__init__ sets; data is whatever the caller stores there
SizeDist(data, bins, distrType) ==
    [ bins |-> bins, bincenters |-> bincentersOf(bins), binwidth |-> binwidthOf(bins),
      distributionType |-> distrType, data |-> data ]

\* self.bincenters * np.log(10.)
_normal2log(sd) == [i \in 1..Len(sd.bincenters) |-> VMul(VRat(sd.bincenters[i]), VLog10)]

\* a slip: the diameter used where the radius is meant
_2Surface_diameter(sd) ==
    [i \in 1..Len(sd.bincenters) |->
        VMul(VMul(VInt(4), VPi), VSquare(VRat(sd.bincenters[i])))]

\* 4. * np.pi * (self.bincenters / 2.) ** 2
_2Surface(sd) ==
    [i \in 1..Len(sd.bincenters) |->
        VMul(VMul(VInt(4), VPi), VSquare(VDiv(VRat(sd.bincenters[i]), VInt(2))))]

\* 4. / 3. * np.pi * (self.bincenters / 2.) ** 3
_2Volume(sd) ==
    [i \in 1..Len(sd.bincenters) |->
        VMul(VMul(VDiv(VInt(4), VInt(3)), VPi), VCube(VDiv(VRat(sd.bincenters[i]), VInt(2))))]

VArr(a) == [i \in 1..Len(a) |-> VRat(a[i])]

(***************************************************************************)
(* The heap of DataFrames.  An instance's data field is a reference, so    *)
(* that an in-place update (dist.data *= x) is seen by every instance that *)
(* holds the reference, and a rebinding (dist.data = dist.data / x) by     *)
(* none but dist.                                                          *)
(***************************************************************************)
Alloc(h, f) == Append(h, f)
NewRef(h)   == Len(h) + 1

\* dist.data *= a
InPlaceMul(h, dist, a) == [h EXCEPT ![dist.data] = FrameMul(h[dist.data], a)]
\* dist.data /= a
InPlaceDiv(h, dist, a) == [h EXCEPT ![dist.data] = FrameDiv(h[dist.data], a)]

\* a slip: copy.copy(self), a new instance sharing the DataFrame
copy_shallow(h, sd) == [heap |-> h, dist |-> sd]

\* deepcopy(self): a new instance with a new DataFrame of equal content
copy(h, sd) == [heap |-> Alloc(h, h[sd.data]), dist |-> [sd EXCEPT !.data = NewRef(h)]]

\* a slip: the early return is never taken
AlreadyThatType_never(dist, distType) == FALSE

\* dist.distributionType == distType  (the test of the early return)
AlreadyThatType(dist, distType) == dist.distributionType = distType

Ok(h, dist)     == [heap |-> h, dist |-> dist, exc |-> "none"]
Raise(h, e)     == [heap |-> h, dist |-> None, exc |-> e]

\* a slip: logarithmic -> natural multiplies (as natural -> logarithmic does)
DiameterAxis_bothMul(h, dist, slf, distType) ==
    IF dist.distributionType = "numberConcentration" THEN Ok(h, dist)
    ELSE IF distType = "numberConcentration" THEN Ok(h, dist)
    ELSE IF dist.distributionType \in distTypes.lognormal THEN
        IF distType \in distTypes.lognormal THEN Ok(h, dist)
        ELSE Ok(Alloc(h, FrameMul(h[dist.data], _normal2log(slf))),
                [dist EXCEPT !.data = NewRef(h)])
    ELSE IF dist.distributionType \in distTypes.natural THEN
        IF distType \in distTypes.natural THEN Ok(h, dist)
        ELSE Ok(Alloc(h, FrameMul(h[dist.data], _normal2log(slf))),
                [dist EXCEPT !.data = NewRef(h)])
    ELSE Raise(h, "ValueError")

\* the diameter-scaling axis, natural <-> logarithmic
DiameterAxis(h, dist, slf, distType) ==
    IF dist.distributionType = "numberConcentration" THEN Ok(h, dist)
    ELSE IF distType = "numberConcentration" THEN Ok(h, dist)
    ELSE IF dist.distributionType \in distTypes.lognormal THEN
        IF distType \in distTypes.lognormal THEN Ok(h, dist)
        ELSE Ok(Alloc(h, FrameDiv(h[dist.data], _normal2log(slf))),
                [dist EXCEPT !.data = NewRef(h)])
    ELSE IF dist.distributionType \in distTypes.natural THEN
        IF distType \in distTypes.natural THEN Ok(h, dist)
        ELSE Ok(Alloc(h, FrameMul(h[dist.data], _normal2log(slf))),
                [dist EXCEPT !.data = NewRef(h)])
    ELSE Raise(h, "ValueError")

\* a slip: a number distribution takes every target but surface as volume
WeightingAxis_elseVolume(h, dist, slf, distType) ==
    IF dist.distributionType = "numberConcentration" THEN Ok(h, dist)
    ELSE IF distType = "numberConcentration" THEN Ok(h, dist)
    ELSE IF dist.distributionType \in distTypes.number THEN
        IF distType \in distTypes.number THEN Ok(h, dist)
        ELSE IF distType \in distTypes.surface THEN Ok(InPlaceMul(h, dist, _2Surface(slf)), dist)
        ELSE Ok(InPlaceMul(h, dist, _2Volume(slf)), dist)
    ELSE IF dist.distributionType \in distTypes.surface THEN
        IF distType \in distTypes.surface THEN Ok(h, dist)
        ELSE IF distType \in distTypes.number THEN Ok(InPlaceDiv(h, dist, _2Surface(slf)), dist)
        ELSE IF distType \in distTypes.volume
            THEN Ok(InPlaceMul(h, dist, ArrDiv(_2Volume(slf), _2Surface(slf))), dist)
        ELSE Raise(h, "ValueError")
    ELSE IF dist.distributionType \in distTypes.volume THEN
        IF distType \in distTypes.volume THEN Ok(h, dist)
        ELSE IF distType \in distTypes.number THEN Ok(InPlaceDiv(h, dist, _2Volume(slf)), dist)
        ELSE IF distType \in distTypes.surface
            THEN Ok(InPlaceMul(h, dist, ArrDiv(_2Surface(slf), _2Volume(slf))), dist)
        ELSE Raise(h, "ValueError")
    ELSE Raise(h, "ValueError")

\* the weighting-basis axis, number <-> surface <-> volume
WeightingAxis(h, dist, slf, distType) ==
    IF dist.distributionType = "numberConcentration" THEN Ok(h, dist)
    ELSE IF distType = "numberConcentration" THEN Ok(h, dist)
    ELSE IF dist.distributionType \in distTypes.number THEN
        IF distType \in distTypes.number THEN Ok(h, dist)
        ELSE IF distType \in distTypes.surface THEN Ok(InPlaceMul(h, dist, _2Surface(slf)), dist)
        ELSE IF distType \in distTypes.volume THEN Ok(InPlaceMul(h, dist, _2Volume(slf)), dist)
        ELSE Raise(h, "ValueError")
    ELSE IF dist.distributionType \in distTypes.surface THEN
        IF distType \in distTypes.surface THEN Ok(h, dist)
        ELSE IF distType \in distTypes.number THEN Ok(InPlaceDiv(h, dist, _2Surface(slf)), dist)
        ELSE IF distType \in distTypes.volume
            THEN Ok(InPlaceMul(h, dist, ArrDiv(_2Volume(slf), _2Surface(slf))), dist)
        ELSE Raise(h, "ValueError")
    ELSE IF dist.distributionType \in distTypes.volume THEN
        IF distType \in distTypes.volume THEN Ok(h, dist)
        ELSE IF distType \in distTypes.number THEN Ok(InPlaceDiv(h, dist, _2Volume(slf)), dist)
        ELSE IF distType \in distTypes.surface
            THEN Ok(InPlaceMul(h, dist, ArrDiv(_2Surface(slf), _2Volume(slf))), dist)
        ELSE Raise(h, "ValueError")
    ELSE Raise(h, "ValueError")

RECURSIVE _convert2otherDistribution(_, _, _)

\* dist.distributionType = distType, and return dist
Tagged(c, distType) ==
    IF c.exc # "none" THEN c
    ELSE Ok(c.heap, [c.dist EXCEPT !.distributionType = distType])

\* dist.data *= self.binwidth, on the instance convert2dNdDp returned
TimesBinwidth(c, slf) ==
    IF c.exc # "none" THEN c
    ELSE Ok(InPlaceMul(c.heap, c.dist, VArr(slf.binwidth)), c.dist)

\* a slip: the table of a numberConcentration source is not divided by the bin widths
NumberConcentrationStep_noDivide(h, dist, slf, distType) ==
    IF distType = "numberConcentration" THEN
        Tagged(TimesBinwidth(_convert2otherDistribution(h, dist, "dNdDp"), slf), distType)
    ELSE IF dist.distributionType = "numberConcentration" THEN
        Tagged(_convert2otherDistribution(
                   Alloc(h, h[dist.data]),
                   [dist EXCEPT !.data = NewRef(h), !.distributionType = "dNdDp"],
                   distType),
               distType)
    ELSE Ok(h, [dist EXCEPT !.distributionType = distType])

\* the numberConcentration step and the final tagging
NumberConcentrationStep(h, dist, slf, distType) ==
    IF distType = "numberConcentration" THEN
        \* dist = dist.convert2dNdDp(); dist.data *= self.binwidth
        Tagged(TimesBinwidth(_convert2otherDistribution(h, dist, "dNdDp"), slf), distType)
    ELSE IF dist.distributionType = "numberConcentration" THEN
        \* dist.data = dist.data / self.binwidth; dist.distributionType = 'dNdDp'
        \* dist = dist._convert2otherDistribution(distType)
        Tagged(_convert2otherDistribution(
                   Alloc(h, FrameDiv(h[dist.data], VArr(slf.binwidth))),
                   [dist EXCEPT !.data = NewRef(h), !.distributionType = "dNdDp"],
                   distType),
               distType)
    ELSE Ok(h, [dist EXCEPT !.distributionType = distType])

\* the code after the weighting-basis axis
AfterWeighting(s2, slf, distType) ==
    IF s2.exc # "none" THEN s2
    ELSE NumberConcentrationStep(s2.heap, s2.dist, slf, distType)

\* the code after the diameter-scaling axis
AfterDiameter(s1, slf, distType) ==
    IF s1.exc # "none" THEN s1
    ELSE AfterWeighting(WeightingAxis(s1.heap, s1.dist, slf, distType), slf, distType)

\* a slip: the early return hands back self, not the copy
AfterCopy_returnsSelf(c, slf, distType) ==
    IF AlreadyThatType(c.dist, distType) THEN Ok(c.heap, slf)
    ELSE AfterDiameter(DiameterAxis(c.heap, c.dist, slf, distType), slf, distType)

\* the code after dist = self.copy()
AfterCopy(c, slf, distType) ==
    IF AlreadyThatType(c.dist, distType) THEN Ok(c.heap, c.dist)
    ELSE AfterDiameter(DiameterAxis(c.heap, c.dist, slf, distType), slf, distType)

\* self._convert2otherDistribution(distType): [heap, dist (the return value), exc]
_convert2otherDistribution(h, slf, distType) == AfterCopy(copy(h, slf), slf, distType)

\* the convert2* wrappers, by name
Wrappers ==
    [ convert2dNdDp    |-> "dNdDp",    convert2dNdlogDp |-> "dNdlogDp",
      convert2dSdDp    |-> "dSdDp",    convert2dSdlogDp |-> "dSdlogDp",
      convert2dVdDp    |-> "dVdDp",    convert2dVdlogDp |-> "dVdlogDp",
      convert2numberconcentration |-> "numberConcentration" ]

(***************************************************************************)
(* Keeping the heap finite: after a call only the DataFrames the named     *)
(* instances hold are kept, renumbered in the order self, ret, ret2.       *)
(***************************************************************************)
RECURSIVE LiveRefs(_, _)
LiveRefs(roots, acc) ==
    IF roots = <<>> THEN acc
    ELSE LET o == Head(roots)
         IN  IF o = None \/ (\E i \in 1..Len(acc) : acc[i] = o.data)
                THEN LiveRefs(Tail(roots), acc)
                ELSE LiveRefs(Tail(roots), Append(acc, o.data))

PosOf(refs, r) == CHOOSE i \in 1..Len(refs) : refs[i] = r

Renumbered(h, roots, refs, e) ==
    [ heap  |-> [i \in 1..Len(refs) |-> h[refs[i]]],
      roots |-> [j \in 1..Len(roots) |->
                    IF roots[j] = None THEN None
                    ELSE [roots[j] EXCEPT !.data = PosOf(refs, roots[j].data)]],
      exc   |-> e ]

Collect(h, roots, e) == Renumbered(h, roots, LiveRefs(roots, <<>>), e)

\* the heap after a call returned r, the instances in roots being held
CollectCall(r, roots) == Collect(r.heap, Append(roots, r.dist), r.exc)

(***************************************************************************)
(* The converter as a state machine: a source instance self, the instance  *)
(* ret a conversion of self returned, and the instance ret2 a conversion   *)
(* of ret returned.                                                        *)
(***************************************************************************)
RowIndex(n) == [i \in 1..n |-> RInt(10 * (i - 1))]

\* tables of 1..MaxRows rows: the value of row r in bin i is v + (r - 1) + (i - 1)
\* for a v of 0..MaxVal, so that no two values of a column or of a row are equal
InputFrames ==
    { [index |-> RowIndex(n),
       rows  |-> [r \in 1..n |-> [i \in 1..NBins |-> VInt(v + (r - 1) + (i - 1))]]] :
         n \in 1..MaxRows, v \in 0..MaxVal }

\* candidate bin edges 1, 2, 4, 7, 11, ... (bins of different widths)
EdgeVal(j) == 1 + (j * (j - 1)) \div 2

\* bin edges: strictly increasing, positive; 1, 2, 4, .. and 2, 4, 7, ..
InputBins == { [i \in 1..(NBins + 1) |-> RInt(EdgeVal(i + o))] : o \in 0..1 }

Idle == /\ ts = None /\ pre = None /\ ls = None /\ sdarg = None

InitConvert ==
    /\ \E f \in InputFrames, b \in InputBins, k \in AllKinds :
          /\ heap = <<f>>
          /\ self = SizeDist(1, b, k)
    /\ ret = None
    /\ ret2 = None
    /\ exc = "none"
    /\ last = [op |-> "SizeDist", distType |-> "", first |-> "", modified |-> FALSE]
    /\ Idle

\* ret = <the call>
StoreRet(g) ==
    /\ heap' = g.heap
    /\ self' = g.roots[1]
    /\ ret'  = g.roots[2]
    /\ ret2' = None
    /\ exc'  = g.exc

\* ret2 = <the call>
StoreRet2(g) ==
    /\ heap' = g.heap
    /\ self' = g.roots[1]
    /\ ret'  = g.roots[2]
    /\ ret2' = g.roots[3]
    /\ exc'  = g.exc

\* ret = self._convert2otherDistribution(distType)
Convert(distType) ==
    /\ ret = None
    /\ StoreRet(CollectCall(_convert2otherDistribution(heap, self, distType), <<self>>))
    /\ last' = [op |-> "_convert2otherDistribution", distType |-> distType,
                first |-> distType, modified |-> FALSE]
    /\ UNCHANGED <<ts, pre, ls, sdarg>>

\* ret = self.convert2...()
CallWrapper(w) ==
    /\ ret = None
    /\ StoreRet(CollectCall(_convert2otherDistribution(heap, self, Wrappers[w]), <<self>>))
    /\ last' = [op |-> w, distType |-> Wrappers[w], first |-> Wrappers[w], modified |-> FALSE]
    /\ UNCHANGED <<ts, pre, ls, sdarg>>

\* ret2 = ret._convert2otherDistribution(distType)
ConvertAgain(distType) ==
    /\ ret # None
    /\ ret2 = None
    /\ ~last.modified
    /\ StoreRet2(CollectCall(_convert2otherDistribution(heap, ret, distType), <<self, ret>>))
    /\ last' = [op |-> "again", distType |-> distType, first |-> last.first,
                modified |-> last.modified]
    /\ UNCHANGED <<ts, pre, ls, sdarg>>

\* the caller writes into the returned instance's table: ret.data.iloc[0, 0] = MaxVal + 1
ModifyResult ==
    /\ ret # None
    /\ ret2 = None
    /\ ~last.modified
    /\ heap' = [heap EXCEPT ![ret.data].rows[1][1] = VInt(MaxVal + 1)]
    /\ last' = [last EXCEPT !.op = "modify", !.modified = TRUE]
    /\ UNCHANGED <<self, ret, ret2, exc, ts, pre, ls, sdarg>>

\* the caller drops the instances it was returned
Drop ==
    /\ ret # None
    /\ StoreRet(Collect(heap, <<self, None>>, "none"))
    /\ last' = [op |-> "drop", distType |-> "", first |-> "", modified |-> FALSE]
    /\ UNCHANGED <<ts, pre, ls, sdarg>>

NextConvert ==
    \/ Drop
    \/ \E k \in AllKinds : Convert(k)
    \/ \E w \in DOMAIN Wrappers : CallWrapper(w)
    \/ \E k \in AllKinds : ConvertAgain(k)
    \/ ModifyResult

SpecConvert == InitConvert /\ [][NextConvert]_vars

(***************************************************************************)
(* Properties of the converter.                                            *)
(***************************************************************************)
\* the call the state records, its receiver and its return value
IsConvertCall == last.op \notin {"SizeDist", "drop", "modify"}
IsFirstCall   == IsConvertCall /\ last.op # "again"
CallSrc       == IF last.op = "again" THEN ret ELSE self
CallRet       == IF last.op = "again" THEN ret2 ELSE ret

Rows(sd)   == heap[sd.data].rows
Index(sd)  == heap[sd.data].index

\* the factors as section 4.2 states them, in closed form, for a bin of center c
Center(bins, i)  == RDiv(RAdd(bins[i], bins[i + 1]), RInt(2))
Width(bins, i)   == RSub(bins[i + 1], bins[i])
LogFactor(c)     == Val(c.n, c.d, 0, 1)                          \* c * ln(10)
SurfaceFactor(c) == Val(c.n * c.n, c.d * c.d, 1, 0)              \* 4 pi (c/2)^2 = pi c^2
VolumeFactor(c)  == Val(c.n * c.n * c.n, 6 * c.d * c.d * c.d, 1, 0)  \* (4/3) pi (c/2)^3 = pi c^3 / 6
BasisFactor(k, c) ==
    IF k \in {"dSdDp", "dSdlogDp"} THEN SurfaceFactor(c)
    ELSE IF k \in {"dVdDp", "dVdlogDp"} THEN VolumeFactor(c)
    ELSE VInt(1)
IsLog(k) == k \in {"dNdlogDp", "dSdlogDp", "dVdlogDp"}
FactorD(s, t, c) ==
    IF ~IsLog(s) /\ IsLog(t) THEN LogFactor(c)
    ELSE IF IsLog(s) /\ ~IsLog(t) THEN VDiv(VInt(1), LogFactor(c))
    ELSE VInt(1)
FactorW(s, t, c) == VDiv(BasisFactor(t, c), BasisFactor(s, c))

\* the value section 4.2 gives bin i after a conversion from s to t
Expected(v, s, t, c) == VMul(VMul(v, FactorD(s, t, c)), FactorW(s, t, c))

\* C1: converting a table of one of the six axis kinds to another of the six
\* and back to the original kind succeeds and gives the original values in
\* every row and bin, tagged with the original kind.
C1_RoundTrip ==
    ( /\ last.op = "again"
      /\ ~last.modified
      /\ self.distributionType \in AxisKinds
      /\ last.first \in AxisKinds
      /\ last.distType = self.distributionType )
    => ( /\ exc = "none"
         /\ ret2 # None
         /\ ret2.distributionType = self.distributionType
         /\ Rows(ret2) = Rows(self) )

\* a round trip dNdDp -> dVdlogDp -> dNdDp of a table with a nonzero value,
\* whose intermediate table differs from the source
C1_Witness ==
    /\ last.op = "again"
    /\ ~last.modified
    /\ self.distributionType = "dNdDp"
    /\ last.first = "dVdlogDp"
    /\ last.distType = "dNdDp"
    /\ ret2 # None
    /\ Rows(ret) # Rows(self)
    /\ Len(Rows(self)) = 2

\* C2: no conversion request, failing or not, through
\* _convert2otherDistribution or a wrapper, changes the source's row values,
\* row index, bin edges or kind; the instance returned is a distinct one,
\* and writing into it leaves the source as it was.
C2_CopyOnConvert ==
    [][ /\ self' = self
        /\ heap'[self'.data] = heap[self.data]
        /\ (ret' # None => ret'.data # self'.data)
        /\ (ret2' # None => ret2'.data # self'.data /\ ret2'.data # ret'.data) ]_vars

\* the caller wrote into the table a dNdDp -> dSdDp conversion returned
\* (a conversion made of in-place updates only)
C2_Witness ==
    /\ last.op = "modify"
    /\ self.distributionType = "dNdDp"
    /\ last.first = "dSdDp"
    /\ ret # None
    /\ Rows(ret) # Rows(self)

\* C3: for source kind s and target kind t among the six axis kinds, the
\* conversion succeeds and bin i of every row is the source value times
\* D(s,t,i) times W(s,t,i).
C3_AxisFactors ==
    ( /\ IsConvertCall
      /\ ~last.modified
      /\ CallSrc.distributionType \in AxisKinds
      /\ last.distType \in AxisKinds )
    => ( /\ exc = "none"
         /\ CallRet # None
         /\ CallRet.distributionType = last.distType
         /\ Index(CallRet) = Index(CallSrc)
         /\ \A r \in 1..Len(Rows(CallSrc)) : \A i \in 1..NBins :
               Rows(CallRet)[r][i] =
                   Expected(Rows(CallSrc)[r][i], CallSrc.distributionType, last.distType,
                            Center(CallSrc.bins, i)) )

\* a conversion dSdlogDp -> dVdDp (both axes differ) of a two-row table
\* whose rows differ
C3_Witness ==
    /\ IsFirstCall
    /\ self.distributionType = "dSdlogDp"
    /\ last.distType = "dVdDp"
    /\ ret # None
    /\ Len(Rows(self)) = 2
    /\ Rows(self)[1] # Rows(self)[2]
    /\ Rows(ret) # Rows(self)

\* C4: converting one of the six axis kinds to numberConcentration gives the
\* dNdDp conversion of the source times the bin width; converting
\* numberConcentration to one of the six gives the conversion to that kind of
\* the source divided by the bin width, read as dNdDp; the result carries the
\* requested kind; and dNdDp -> numberConcentration -> dNdDp gives the
\* original values.
C4_NumberConcentration ==
    /\ ( /\ IsConvertCall
         /\ ~last.modified
         /\ CallSrc.distributionType \in AxisKinds
         /\ last.distType = "numberConcentration" )
       => ( /\ exc = "none"
            /\ CallRet # None
            /\ CallRet.distributionType = "numberConcentration"
            /\ \A r \in 1..Len(Rows(CallSrc)) : \A i \in 1..NBins :
                  Rows(CallRet)[r][i] =
                      VMul(Expected(Rows(CallSrc)[r][i], CallSrc.distributionType, "dNdDp",
                                    Center(CallSrc.bins, i)),
                           VRat(Width(CallSrc.bins, i))) )
    /\ ( /\ IsConvertCall
         /\ ~last.modified
         /\ CallSrc.distributionType = "numberConcentration"
         /\ last.distType \in AxisKinds )
       => ( /\ exc = "none"
            /\ CallRet # None
            /\ CallRet.distributionType = last.distType
            /\ \A r \in 1..Len(Rows(CallSrc)) : \A i \in 1..NBins :
                  Rows(CallRet)[r][i] =
                      Expected(VDiv(Rows(CallSrc)[r][i], VRat(Width(CallSrc.bins, i))),
                               "dNdDp", last.distType, Center(CallSrc.bins, i)) )
    /\ ( /\ last.op = "again"
         /\ ~last.modified
         /\ self.distributionType = "dNdDp"
         /\ last.first = "numberConcentration"
         /\ last.distType = "dNdDp" )
       => ( ret2 # None /\ Rows(ret2) = Rows(self) )

\* dNdDp -> numberConcentration -> dNdDp of a table with a nonzero value in
\* a bin of width other than 1
C4_Witness ==
    /\ last.op = "again"
    /\ ~last.modified
    /\ self.distributionType = "dNdDp"
    /\ last.first = "numberConcentration"
    /\ last.distType = "dNdDp"
    /\ ret2 # None
    /\ Rows(ret) # Rows(self)
    /\ \E i \in 1..NBins : Width(self.bins, i) # RInt(1) /\ Rows(self)[1][i] # VInt(0)

\* C5: converting a table of any of the eight kinds to its own kind does not
\* raise and returns a copy with the source's values, index and kind.
C5_SameKindNoOp ==
    ( /\ IsConvertCall
      /\ ~last.modified
      /\ last.distType = CallSrc.distributionType )
    => ( /\ exc = "none"
         /\ CallRet # None
         /\ CallRet.distributionType = CallSrc.distributionType
         /\ heap[CallRet.data] = heap[CallSrc.data]
         /\ CallRet.data # CallSrc.data )

\* calibration -> calibration of a table with a nonzero value returned a copy
C5_Witness ==
    /\ IsFirstCall
    /\ self.distributionType = "calibration"
    /\ last.distType = "calibration"
    /\ ret # None
    /\ \E i \in 1..NBins : Rows(self)[1][i] # VInt(0)

\* C6: a request to convert a calibration table to any other kind, or a table
\* of another kind to calibration, raises ValueError and returns no table.
C6_CalibrationNeverConverted ==
    ( /\ IsConvertCall
      /\ last.distType # CallSrc.distributionType
      /\ (last.distType = "calibration" \/ CallSrc.distributionType = "calibration") )
    => ( exc = "ValueError" /\ CallRet = None )

\* both directions were requested: numberConcentration -> calibration on the
\* instance a dNdDp -> numberConcentration conversion returned, and
\* calibration -> dNdDp
C6_Witness ==
    /\ IsConvertCall
    /\ exc = "ValueError"
    /\ \/ (last.op = "again" /\ ret.distributionType = "numberConcentration"
            /\ last.distType = "calibration")
       \/ (last.op # "again" /\ self.distributionType = "calibration"
            /\ last.distType = "dNdDp")

(***************************************************************************)
(* Gap filling: SizeDist.fillGaps and the constructor that calls it.       *)
(* In this part an instance holds its DataFrame by value.                  *)
(***************************************************************************)
MaxTsRows    == 4       \* rows of a table handed to the constructor
MaxFillCalls == 2       \* explicit fillGaps calls after construction

NaN == [nan |-> TRUE]

\* index[1:].values - index[0:-1].values
Diffs(idx) == [i \in 1..(Len(idx) - 1) |-> RSub(idx[i + 1], idx[i])]

RECURSIVE InsertRat(_, _)
InsertRat(sorted, x) ==
    IF sorted = <<>> THEN <<x>>
    ELSE IF RLess(x, Head(sorted)) THEN <<x>> \o sorted
    ELSE <<Head(sorted)>> \o InsertRat(Tail(sorted), x)

RECURSIVE SortRats(_)
SortRats(q) == IF q = <<>> THEN <<>> ELSE InsertRat(SortRats(Tail(q)), Head(q))

MiddleOf(sorted, n) ==
    IF n = 0 THEN NaN
    ELSE IF n % 2 = 1 THEN sorted[(n + 1) \div 2]
    ELSE RDiv(RAdd(sorted[n \div 2], sorted[n \div 2 + 1]), RInt(2))

\* np.median(diff)
median(diff) == MiddleOf(SortRats(diff), Len(diff))

Scaled(m, scale) == IF m = NaN THEN NaN ELSE RMul(m, scale)

\* threshold = np.median(diff) * scale
threshold(diff, scale) == Scaled(median(diff), scale)

RECURSIVE Positions(_, _, _)
Positions(diff, thr, i) ==
    IF i > Len(diff) THEN <<>>
    ELSE IF thr # NaN /\ RLess(thr, diff[i]) THEN <<i>> \o Positions(diff, thr, i + 1)
    ELSE Positions(diff, thr, i + 1)

\* np.where(diff > threshold)[0]
where(diff, thr) == Positions(diff, thr, 1)

\* np.zeros(self.bincenters.shape)
zeros(n) == [i \in 1..n |-> VInt(0)]

\* data.loc[key] = row: the rows of that key are overwritten, or a row is added
SetRow(f, key, row) ==
    IF \E r \in 1..Len(f.index) : f.index[r] = key
    THEN [f EXCEPT !.rows = [r \in 1..Len(f.index) |-> IF f.index[r] = key THEN row ELSE f.rows[r]]]
    ELSE [index |-> Append(f.index, key), rows |-> Append(f.rows, row)]

RECURSIVE SetRows(_, _, _)
SetRows(f, keys, row) ==
    IF keys = <<>> THEN f ELSE SetRows(SetRow(f, Head(keys), row), Tail(keys), row)

Cons(key, row, f) == [index |-> <<key>> \o f.index, rows |-> <<row>> \o f.rows]
Rest(f) == [index |-> Tail(f.index), rows |-> Tail(f.rows)]

RECURSIVE InsertByKey(_, _, _)
InsertByKey(f, key, row) ==
    IF f.index = <<>> THEN Cons(key, row, f)
    ELSE IF RLess(key, Head(f.index)) THEN Cons(key, row, f)
    ELSE Cons(Head(f.index), Head(f.rows), InsertByKey(Rest(f), key, row))

RECURSIVE SortFrom(_, _)
SortFrom(f, r) ==
    IF r = 0 THEN [index |-> <<>>, rows |-> <<>>]
    ELSE InsertByKey(SortFrom(f, r - 1), f.index[r], f.rows[r])

\* data.sort_index(): ascending by key, rows of equal keys in their order
sort_index(f) == SortFrom(f, Len(f.index))

\* gap_start = index[where], each plus threshold
gapStartKeys(idx, w, thr) == [j \in 1..Len(w) |-> RAdd(idx[w[j]], thr)]

\* a slip: the row before the gap end is placed after it
gapEndKeys_plus(idx, w, thr) == [j \in 1..Len(w) |-> RAdd(idx[w[j] + 1], thr)]

\* gap_end = index[where + 1], each minus threshold
gapEndKeys(idx, w, thr) == [j \in 1..Len(w) |-> RSub(idx[w[j] + 1], thr)]

\* the body of "if len(where) != 0"
FillAt(f, w, thr, n) ==
    IF Len(w) = 0 THEN f
    ELSE sort_index(SetRows(SetRows(f, gapStartKeys(f.index, w, thr), zeros(n)),
                            gapEndKeys(f.index, w, thr), zeros(n)))

FillOver(f, thr, n) == FillAt(f, where(Diffs(f.index), thr), thr, n)

\* self.fillGaps(scale): the new value of self.data
fillGaps(sd, scale) == FillOver(sd.data, threshold(Diffs(sd.data.index), scale), Len(sd.bincenters))

\* the number the warning of fillGaps reports (0: no warning)
gapsWarned(f, scale) == Len(where(Diffs(f.index), threshold(Diffs(f.index), scale)))

DefaultScale == Rat(11, 10)

EmptyFrame == [index |-> <<>>, rows |-> <<>>]

Filled(sd, scale) == [sd EXCEPT !.data = fillGaps(sd, scale)]

\* SizeDist.__init__(data, bins, distrType, fixGaps=fixGaps)
SizeDist__init__(data, bins, distrType, fixGaps) ==
    IF data = None THEN SizeDist(EmptyFrame, bins, distrType)
    ELSE IF fixGaps THEN Filled(SizeDist(data, bins, distrType), DefaultScale)
    ELSE SizeDist(data, bins, distrType)

(***************************************************************************)
(* SizeDist_LS: the constructor.  A numpy array is [ndim, v]: for ndim = 1, *)
(* v is a sequence of numbers; for ndim = 2 (an array of shape (m, 2)), v  *)
(* is a sequence of pairs.                                                 *)
(***************************************************************************)
Arr1(v) == [ndim |-> 1, v |-> v]
Arr2(v) == [ndim |-> 2, v |-> v]

Half(x) == RDiv(x, RInt(2))

\* (a[1:] + a[:-1]) / 2.
Midpoints(a) ==
    IF a.ndim = 1
    THEN Arr1([i \in 1..(Len(a.v) - 1) |-> Half(RAdd(a.v[i + 1], a.v[i]))])
    ELSE Arr2([i \in 1..(Len(a.v) - 1) |->
                  <<Half(RAdd(a.v[i + 1][1], a.v[i][1])), Half(RAdd(a.v[i + 1][2], a.v[i][2]))>>])

WithLayers(sd, layerbounderies) ==
    IF layerbounderies = None
    THEN [layerbounderies |-> Arr2(<<>>), layercenters |-> Arr1(<<>>)] @@ sd
    ELSE [layerbounderies |-> layerbounderies, layercenters |-> Midpoints(layerbounderies)] @@ sd

\* SizeDist_LS.__init__(data, bins, distributionType, layerbounderies, fixGaps=fixGaps):
\* the base constructor is called with fixGaps=True whatever the caller passed
SizeDist_LS__init__(data, bins, distributionType, layerbounderies, fixGaps) ==
    WithLayers(SizeDist__init__(data, bins, distributionType, TRUE), layerbounderies)

(***************************************************************************)
(* Gap filling as a state machine: pre holds the data argument, the        *)
(* constructor builds ts from it, and fillGaps may be called on ts again.  *)
(***************************************************************************)
GapDeltas == {10, 22, 50}        \* spacings of successive row keys
Scales    == {Rat(11, 10), Rat(3, 2)}

GapBins == [i \in 1..(NBins + 1) |-> RInt(EdgeVal(i))]

RECURSIVE KeysFrom(_, _)
KeysFrom(deltas, start) ==
    IF deltas = <<>> THEN <<RInt(start)>>
    ELSE <<RInt(start)>> \o KeysFrom(Tail(deltas), start + Head(deltas))

\* the table of the given keys; every value of row r is r
FrameOf(keys) == [index |-> keys, rows |-> [r \in 1..Len(keys) |-> [i \in 1..NBins |-> VInt(r)]]]

\* ten rows at the spacing 10 with one spacing of 50
TenRowDeltas == { [i \in 1..9 |-> IF i = g THEN 50 ELSE 10] : g \in 1..9 }

\* tables whose keys the caller did not sort: descending, out of order, repeated
UnsortedTables ==
    { FrameOf(<<RInt(20), RInt(10), RInt(0)>>),
      FrameOf(<<RInt(0), RInt(20), RInt(10)>>),
      FrameOf(<<RInt(0), RInt(40), RInt(11), RInt(21)>>),
      FrameOf(<<RInt(10), RInt(10)>>) }

InputTables ==
    {EmptyFrame}
    \cup UnsortedTables
    \cup { FrameOf(KeysFrom(ds, 0)) : ds \in UNION { [1..n -> GapDeltas] : n \in 0..(MaxTsRows - 1) } }
    \cup { FrameOf(KeysFrom(ds, 0)) : ds \in TenRowDeltas }

NoCall == [op |-> "args", fixGaps |-> TRUE, ran |-> FALSE, scale |-> DefaultScale, gaps |-> 0, calls |-> 0]

\* the call cls(data, bins, distrType, fixGaps=fixGaps) of one of the three classes
\* (SizeDist_TS has no constructor of its own; a SizeDist_LS is given no boundaries)
Constructed(cls, data, bins, distrType, fixGaps) ==
    IF cls = "SizeDist_LS" THEN SizeDist_LS__init__(data, bins, distrType, None, fixGaps)
    ELSE SizeDist__init__(data, bins, distrType, fixGaps)

\* the fixGaps that reaches SizeDist.__init__
PassedOn(cls, fixGaps) == IF cls = "SizeDist_LS" THEN TRUE ELSE fixGaps

InitGaps ==
    /\ pre \in InputTables \cup {None}
    /\ ts = None
    /\ last = NoCall
    /\ exc = "none"
    /\ heap = <<>> /\ self = None /\ ret = None /\ ret2 = None /\ ls = None /\ sdarg = None

\* ts = cls(pre, GapBins, 'dNdDp', fixGaps=fixGaps)
Construct(cls, fixGaps) ==
    /\ ts = None
    /\ ts' = [cls |-> cls] @@ Constructed(cls, pre, GapBins, "dNdDp", fixGaps)
    /\ last' = [ op |-> "__init__", fixGaps |-> fixGaps,
                 ran |-> (pre # None /\ PassedOn(cls, fixGaps)), scale |-> DefaultScale,
                 gaps |-> IF pre # None /\ PassedOn(cls, fixGaps) THEN gapsWarned(pre, DefaultScale) ELSE 0,
                 calls |-> 0 ]
    /\ UNCHANGED <<pre, exc, heap, self, ret, ret2, ls, sdarg>>

\* ts.fillGaps(scale)
FillGaps(scale) ==
    /\ ts # None
    /\ last.calls < MaxFillCalls
    /\ pre' = ts.data
    /\ ts' = Filled(ts, scale)
    /\ last' = [ op |-> "fillGaps", fixGaps |-> TRUE, ran |-> TRUE, scale |-> scale,
                 gaps |-> gapsWarned(ts.data, scale), calls |-> last.calls + 1 ]
    /\ UNCHANGED <<exc, heap, self, ret, ret2, ls, sdarg>>

NextGaps ==
    \/ \E cls \in {"SizeDist", "SizeDist_TS", "SizeDist_LS"}, fixGaps \in BOOLEAN : Construct(cls, fixGaps)
    \/ \E scale \in Scales : FillGaps(scale)

SpecGaps == InitGaps /\ [][NextGaps]_vars

(***************************************************************************)
(* Properties of gap filling.  When last.ran holds, pre is the table       *)
(* fillGaps was given and ts.data the table it left.                       *)
(***************************************************************************)
StrictlyAscending(idx) == \A i \in 1..(Len(idx) - 1) : RLess(idx[i], idx[i + 1])

\* the median of the successive key deltas of the table fillGaps was given
TypicalDelta == median(Diffs(pre.index))

\* the positions i such that the delta from key i to key i + 1 is a gap
GapsOf(f, scale) ==
    { i \in 1..(Len(f.index) - 1) :
        median(Diffs(f.index)) # NaN
        /\ RLess(RMul(median(Diffs(f.index)), scale), RSub(f.index[i + 1], f.index[i])) }

HasZeroRowAt(f, key) ==
    \E r \in 1..Len(f.index) : f.index[r] = key /\ f.rows[r] = zeros(NBins)

\* C7 as claimed: for each gap between the keys start and end, the table has
\* an all-zero row at start + typical_delta and one at end - typical_delta.
C7_Claimed ==
    last.ran =>
        \A i \in GapsOf(pre, last.scale) :
            /\ HasZeroRowAt(ts.data, RAdd(pre.index[i], TypicalDelta))
            /\ HasZeroRowAt(ts.data, RSub(pre.index[i + 1], TypicalDelta))

\* C7 amended: for each gap (a delta exceeding typical_delta * scale) between
\* the keys start and end, the table has an all-zero row at
\* start + typical_delta * scale and one at end - typical_delta * scale.
C7_GapRowPositions ==
    last.ran =>
        \A i \in GapsOf(pre, last.scale) :
            /\ HasZeroRowAt(ts.data, RAdd(pre.index[i], RMul(TypicalDelta, last.scale)))
            /\ HasZeroRowAt(ts.data, RSub(pre.index[i + 1], RMul(TypicalDelta, last.scale)))

\* the constructor filled the one gap of a ten-row table, at the default scale
C7_Witness ==
    /\ last.op = "__init__"
    /\ last.ran
    /\ Len(pre.index) = 10
    /\ Cardinality(GapsOf(pre, DefaultScale)) = 1
    /\ \E i \in GapsOf(pre, DefaultScale) :
          /\ HasZeroRowAt(ts.data, RAdd(pre.index[i], Rat(11, 1)))
          /\ HasZeroRowAt(ts.data, RSub(pre.index[i + 1], Rat(11, 1)))

\* C8: for a table of strictly increasing keys with g gaps, gap filling
\* leaves original + 2 * g keys, strictly ascending, every row of a new key
\* being all zeros.
C8_GapRowCount ==
    (last.ran /\ StrictlyAscending(pre.index)) =>
        /\ Len(ts.data.index) = Len(pre.index) + 2 * Cardinality(GapsOf(pre, last.scale))
        /\ StrictlyAscending(ts.data.index)
        /\ \A r \in 1..Len(ts.data.index) :
              (\A q \in 1..Len(pre.index) : pre.index[q] # ts.data.index[r])
                  => ts.data.rows[r] = zeros(NBins)

(***************************************************************************)
(* SizeDist_LS: add_layer.                                                 *)
(***************************************************************************)
MaxAlt    == 3      \* altitudes are 0, 100, .., 100 * MaxAlt
MaxLayers == 2      \* add_layer is called while fewer boundary rows are stored

RECURSIVE Flatten(_)
Flatten(pairs) == IF pairs = <<>> THEN <<>> ELSE <<Head(pairs)[1], Head(pairs)[2]>> \o Flatten(Tail(pairs))

\* the elements of an array in row-major order
Flat(a) == IF a.ndim = 1 THEN a.v ELSE Flatten(a.v)

RECURSIVE Dedup(_)
Dedup(sorted) ==
    IF Len(sorted) <= 1 THEN sorted
    ELSE IF sorted[1] = sorted[2] THEN Dedup(Tail(sorted))
    ELSE <<Head(sorted)>> \o Dedup(Tail(sorted))

\* np.unique(a): the sorted distinct elements
unique(a) == Dedup(SortRats(Flat(a)))

\* np.where(u == x)[0], x being an element of u
WhereEq(u, x) == CHOOSE i \in 1..Len(u) : u[i] = x

Column(pairs, c) == [i \in 1..Len(pairs) |-> pairs[i][c]]
Zip(lows, highs) == [i \in 1..Len(lows) |-> <<lows[i], highs[i]>>]

\* a.sort(axis=0) of an (m, 2) array: each column is sorted on its own
sort_axis0(pairs) == Zip(SortRats(Column(pairs, 1)), SortRats(Column(pairs, 2)))

\* a slip: the appended row stays last
AppendRows_unsorted(f, other) == [index |-> f.index \o other.index, rows |-> f.rows \o other.rows]

\* self.data.append(other).sort()
AppendRows(f, other) == sort_index([index |-> f.index \o other.index, rows |-> f.rows \o other.rows])

Done(host, h, e) == [host |-> host, heap |-> h, exc |-> e]

\* sd.data.index = np.array([layercenter]); self.data = self.data.append(sd.data).sort()
InsertRow(host, c, layercenter) ==
    IF Len(c.heap[c.dist.data].index) # 1 THEN Done(host, c.heap, "ValueError")
    ELSE Done([host EXCEPT !.data = AppendRows(host.data,
                                       [c.heap[c.dist.data] EXCEPT !.index = <<layercenter>>])],
              [c.heap EXCEPT ![c.dist.data].index = <<layercenter>>], "none")

\* the assignments to self.layerbounderies and self.layercenters
StoreLayer(host, layerbounderies, layercenter) ==
    [host EXCEPT !.layerbounderies = Arr2(sort_axis0(layerbounderies)),
                 !.layercenters = Arr1(SortRats(Append(Flat(host.layercenters), layercenter)))]

\* a slip: the boundaries and centers are assigned before the overlap test
CheckAndStore_storeFirst(host, c, layerboundery, layerbounderies, layerbounderiesU) ==
    IF WhereEq(layerbounderiesU, layerboundery[2]) - WhereEq(layerbounderiesU, layerboundery[1]) # 1
    THEN Done(StoreLayer(host, layerbounderies, Half(RAdd(layerboundery[1], layerboundery[2]))),
              c.heap, "ValueError")
    ELSE InsertRow(StoreLayer(host, layerbounderies, Half(RAdd(layerboundery[1], layerboundery[2]))),
                   c, Half(RAdd(layerboundery[1], layerboundery[2])))

\* a slip: the test accepts every pair whose high follows its low, however far
CheckAndStore_anyDistance(host, c, layerboundery, layerbounderies, layerbounderiesU) ==
    IF WhereEq(layerbounderiesU, layerboundery[2]) - WhereEq(layerbounderiesU, layerboundery[1]) < 1
    THEN Done(host, c.heap, "ValueError")
    ELSE InsertRow(StoreLayer(host, layerbounderies, Half(RAdd(layerboundery[1], layerboundery[2]))),
                   c, Half(RAdd(layerboundery[1], layerboundery[2])))

\* the overlap test on layerbounderiesU, and what follows it
CheckAndStore(host, c, layerboundery, layerbounderies, layerbounderiesU) ==
    IF WhereEq(layerbounderiesU, layerboundery[2]) - WhereEq(layerbounderiesU, layerboundery[1]) # 1
    THEN Done(host, c.heap, "ValueError")
    ELSE InsertRow(StoreLayer(host, layerbounderies, Half(RAdd(layerboundery[1], layerboundery[2]))),
                   c, Half(RAdd(layerboundery[1], layerboundery[2])))

\* np.append(self.layerbounderies, np.array([layerboundery]), axis=0), and on
Appended(host, c, layerboundery) ==
    IF c.exc # "none" THEN Done(host, c.heap, c.exc)
    ELSE IF host.layerbounderies.ndim # 2 THEN Done(host, c.heap, "ValueError")
    ELSE CheckAndStore(host, c, layerboundery,
                       Append(host.layerbounderies.v, <<layerboundery[1], layerboundery[2]>>),
                       unique(Arr2(Append(host.layerbounderies.v, <<layerboundery[1], layerboundery[2]>>))))

\* self.add_layer(sd, layerboundery), sd holding the DataFrame h[sd.data]:
\* [host (self after the call), heap, exc]
add_layer(host, h, sd, layerboundery) ==
    IF Len(layerboundery) # 2 THEN Done(host, h, "ValueError")
    ELSE Appended(host, _convert2otherDistribution(h, sd, host.distributionType), layerboundery)

(***************************************************************************)
(* Layers as a state machine: ls is built by the constructor from the      *)
(* arguments pre records, and add_layer is called on it.                   *)
(***************************************************************************)
Alt(k) == RInt(100 * k)

LsKinds == {"dNdDp", "dNdlogDp"}
SdKinds == {"dNdDp", "calibration"}

\* the layerboundery arguments: every pair low < high, an empty and a reversed
\* pair, and two arguments of a wrong length
LayerArgs ==
    { <<Alt(p[1]), Alt(p[2])>> : p \in { q \in (0..MaxAlt) \X (0..MaxAlt) : q[1] < q[2] } }
    \cup { <<Alt(1), Alt(1)>>, <<Alt(1), Alt(0)>>, <<Alt(1)>>, <<Alt(0), Alt(1), Alt(2)>> }

\* the table whose rows are keyed by the centers of the layers between the edges
LayerTable(edges) == FrameOf(Midpoints(Arr1(edges)).v)

EdgesUpTo(n) == [i \in 1..(n + 1) |-> Alt(i - 1)]
PairsUpTo(n) == [i \in 1..n |-> <<Alt(i - 1), Alt(i)>>]

\* the (data, layerbounderies) arguments of the constructor
LsArgs ==
    { [data |-> None, layerbounderies |-> None],
      [data |-> LayerTable(EdgesUpTo(1)), layerbounderies |-> None] }
    \cup { [data |-> LayerTable(EdgesUpTo(n)), layerbounderies |-> Arr1(EdgesUpTo(n))] : n \in 1..2 }
    \cup { [data |-> LayerTable(EdgesUpTo(n)), layerbounderies |-> Arr2(PairsUpTo(n))] : n \in 1..2 }

\* the sd arguments: one row of each kind, and a table of two rows
SdArgs == { [kind |-> k, rows |-> 1] : k \in SdKinds } \cup { [kind |-> "dNdDp", rows |-> 2] }

\* the sd argument: an instance of the given kind with the given number of rows
SdArg(kind, rows) == SizeDist(1, GapBins, kind)
SdFrame(rows) == FrameOf(RowIndex(rows))

InitLayers ==
    /\ \E a \in LsArgs, k \in LsKinds, s \in SdArgs :
          /\ pre = [data |-> a.data, layerbounderies |-> a.layerbounderies,
                    before |-> None, sd |-> s]
          /\ ls = SizeDist_LS__init__(a.data, GapBins, k, a.layerbounderies, TRUE)
    /\ sdarg = None
    /\ exc = "none"
    /\ last = [op |-> "__init__", layerboundery |-> <<>>]
    /\ heap = <<>> /\ self = None /\ ret = None /\ ret2 = None /\ ts = None

Returned(r, sd, layerboundery) ==
    /\ ls' = r.host
    /\ exc' = r.exc
    /\ sdarg' = [sd |-> sd, frame |-> r.heap[1]]
    /\ last' = [op |-> "add_layer", layerboundery |-> layerboundery]
    /\ pre' = [pre EXCEPT !.before = ls]

\* ls.add_layer(sd, layerboundery), sd a fresh instance of the kind and the length
\* that the behaviour uses for all its calls
AddLayer(layerboundery) ==
    /\ Len(ls.layerbounderies.v) < MaxLayers
    /\ Returned(add_layer(ls, <<SdFrame(pre.sd.rows)>>, SdArg(pre.sd.kind, pre.sd.rows),
                          layerboundery),
                SdArg(pre.sd.kind, pre.sd.rows), layerboundery)
    /\ UNCHANGED <<heap, self, ret, ret2, ts>>

NextLayers ==
    \E layerboundery \in LayerArgs : AddLayer(layerboundery)

SpecLayers == InitLayers /\ [][NextLayers]_vars

(***************************************************************************)
(* Properties of the layers.                                               *)
(***************************************************************************)
\* two stored layers share an interior altitude
Overlap(p, q) == RLess(p[1], q[2]) /\ RLess(q[1], p[2])

\* C9: on a host built with no layers, after any sequence of add_layer
\* calls, no two stored boundary pairs share an interior altitude.
C9_LayersNonOverlapping ==
    pre.layerbounderies = None =>
        \A i, j \in 1..Len(ls.layerbounderies.v) :
            i # j => ~Overlap(ls.layerbounderies.v[i], ls.layerbounderies.v[j])

\* the boundary pairs stored: the rows of an (m, 2) array, or the successive
\* edges of a one-dimensional array of edges
StoredPairs ==
    IF ls.layerbounderies.ndim = 2 THEN ls.layerbounderies.v
    ELSE [i \in 1..(Len(ls.layerbounderies.v) - 1) |-> <<ls.layerbounderies.v[i], ls.layerbounderies.v[i + 1]>>]

\* C10: the number of stored boundary pairs, of layer centers and of data
\* rows are equal, and the i-th row key is the midpoint of the i-th pair.
C10_LayerBookkeeping ==
    /\ Len(StoredPairs) = Len(ls.layercenters.v)
    /\ Len(StoredPairs) = Len(ls.data.index)
    /\ \A i \in 1..Len(StoredPairs) :
          i <= Len(ls.data.index) =>
              ls.data.index[i] = Half(RAdd(StoredPairs[i][1], StoredPairs[i][2]))

\* the call that last acted was add_layer
IsAddLayer == last.op = "add_layer"

\* the host as it was before that call
Before == pre.before

\* the call reaches the overlap test: a pair, a host whose boundaries are an
\* (m, 2) array, and a single-row sd of a kind the converter accepts
ReachesTest ==
    /\ IsAddLayer
    /\ Len(last.layerboundery) = 2
    /\ Before.layerbounderies.ndim = 2
    /\ pre.sd.kind # "calibration"
    /\ pre.sd.rows = 1

\* the boundary values stored before the call
BoundaryValues == { Flat(Before.layerbounderies)[i] : i \in 1..Len(Flat(Before.layerbounderies)) }

\* low comes immediately before high among the boundary values and low, high
Consecutive(low, high) ==
    /\ RLess(low, high)
    /\ \A v \in BoundaryValues : ~(RLess(low, v) /\ RLess(v, high))

\* C11: an add_layer(sd, (low, high)) call that reaches the overlap test
\* raises ValueError if and only if low is not immediately before high in
\* the sorted distinct boundary values together with low and high; with the
\* one layer (100, 200) added to an empty host, (200, 300) is accepted and
\* the layer centers become 150, 250.
C11_AdjacencyRule ==
    ReachesTest =>
        /\ (exc = "ValueError") <=> ~Consecutive(last.layerboundery[1], last.layerboundery[2])
        /\ ( /\ pre.layerbounderies = None
             /\ Before.layerbounderies.v = << <<Alt(1), Alt(2)>> >>
             /\ last.layerboundery = <<Alt(2), Alt(3)>> )
           => ( exc = "none" /\ ls.layercenters.v = <<RInt(150), RInt(250)>> )

\* a layer reaching into the stored layer (0, 200) is rejected
C11_Witness ==
    /\ ReachesTest
    /\ Before.layerbounderies.v = << <<Alt(0), Alt(2)>> >>
    /\ last.layerboundery = <<Alt(1), Alt(3)>>
    /\ exc = "ValueError"

\* the call that last acted was add_layer and it returned normally
Succeeded == IsAddLayer /\ exc = "none"

\* (low + high) / 2 of the pair the call was given
MidOfCall == Half(RAdd(last.layerboundery[1], last.layerboundery[2]))

\* the row of the caller's sd in the host's kind, by the factors of section 4.2
ConvertedRow ==
    [i \in 1..NBins |->
        Expected(SdFrame(pre.sd.rows).rows[1][i], pre.sd.kind, Before.distributionType,
                 Center(GapBins, i))]

\* the table f without its i-th row
Without(f, i) ==
    [index |-> SubSeq(f.index, 1, i - 1) \o SubSeq(f.index, i + 1, Len(f.index)),
     rows  |-> SubSeq(f.rows, 1, i - 1) \o SubSeq(f.rows, i + 1, Len(f.rows))]

Ascending(idx) == \A i \in 1..(Len(idx) - 1) : RLeq(idx[i], idx[i + 1])

\* C12: when add_layer(sd, (low, high)) returns normally, the host's table
\* is the table it had plus one row at key (low + high) / 2 holding sd's row
\* converted to the host's kind, its keys ascend, the host's kind is the one
\* it had, and the caller's sd and its table are as they were.
C12_AddLayerEffect ==
    Succeeded =>
        /\ \E i \in 1..Len(ls.data.index) :
              /\ ls.data.index[i] = MidOfCall
              /\ ls.data.rows[i] = ConvertedRow
              /\ Without(ls.data, i) = Before.data
        /\ Ascending(ls.data.index)
        /\ ls.distributionType = Before.distributionType
        /\ ls.bins = Before.bins
        /\ sdarg.sd = SdArg(pre.sd.kind, pre.sd.rows)
        /\ sdarg.frame = SdFrame(pre.sd.rows)

\* a dNdDp row was converted for a dNdlogDp host and put before the row
\* the host had
C12_Witness ==
    /\ Succeeded
    /\ pre.sd.kind = "dNdDp"
    /\ ls.distributionType = "dNdlogDp"
    /\ Len(ls.data.index) = 2
    /\ ls.data.index[1] = MidOfCall
    /\ ls.data.index[2] # MidOfCall
    /\ ls.data.rows[1] # SdFrame(1).rows[1]

(***************************************************************************)
(* The row index of a constructed table.                                   *)
(***************************************************************************)
\* C13: once a table is constructed, with or without gap filling and from
\* rows in any order, and after every fillGaps call, its row keys are
\* strictly ascending (sorted, no key twice).
C13_RowIndexSorted ==
    ts # None => StrictlyAscending(ts.data.index)

(***************************************************************************)
(* Optical depth.  The unit factors 1e6 and 1e-12 are kept as a power of   *)
(* ten beside the value: [v |-> a value, u |-> k] is v * 10^k.  Sums are   *)
(* sets of terms (n/d) * pi^p * ln(10)^l * 10^u of distinct (p, l, u).     *)
(***************************************************************************)
\* v * 10^u; zero has one representation
Elem(v, u) == IF v.n = 0 THEN [v |-> v, u |-> 0] ELSE [v |-> v, u |-> u]

ElemMul(a, b) == Elem(VMul(a.v, b.v), a.u + b.u)

\* array * 10^k, elementwise
TimesPow(a, k) == [i \in 1..Len(a) |-> Elem(a[i].v, a[i].u + k)]

\* array * array, elementwise
ElemArrMul(a, b) == [i \in 1..Len(a) |-> ElemMul(a[i], b[i])]

\* array * a number
TimesRat(a, r) == [i \in 1..Len(a) |-> Elem(VMul(a[i].v, VRat(r)), a[i].u)]

KeyOf(t) == <<t.p, t.l, t.u>>
TermAt(P, k) == CHOOSE t \in P : KeyOf(t) = k
CoefOf(P, k) == IF \E t \in P : KeyOf(t) = k THEN [n |-> TermAt(P, k).n, d |-> TermAt(P, k).d] ELSE RInt(0)
TermOf(r, k) == [n |-> r.n, d |-> r.d, p |-> k[1], l |-> k[2], u |-> k[3]]

\* the sum of two sums
NAdd(P, Q) ==
    { t \in { TermOf(RAdd(CoefOf(P, k), CoefOf(Q, k)), k) : k \in { KeyOf(x) : x \in P \cup Q } } :
        t.n # 0 }

NumOf(e) == IF e.v.n = 0 THEN {} ELSE { TermOf(e.v, <<e.v.p, e.v.l, e.u>>) }

\* a.sum() of an array of values
RECURSIVE ElemSum(_)
ElemSum(a) == IF a = <<>> THEN {} ELSE NAdd(NumOf(Head(a)), ElemSum(Tail(a)))

\* a.sum() of an array of sums
RECURSIVE NSum(_)
NSum(a) == IF a = <<>> THEN {} ELSE NAdd(Head(a), NSum(Tail(a)))

\* bhmie.bhmie_hagen(...).return_Values_as_dict()['extinction_crosssection'] for
\* a diameter in um: the calculator is outside the repository; it stands as a
\* positive value that differs from diameter to diameter
bhmie_hagen(d) == VRat(RAdd(RMul(d, RInt(1000)), RInt(1)))

\* _perform_Miecalculations(diam, wavelength, n): the extinction_crossection
\* column, and the number of calculator calls made
_perform_Miecalculations(diam) ==
    [ extinction_crossection |-> [e \in 1..Len(diam) |-> Elem(bhmie_hagen(diam[e]), 0)],
      calls |-> Len(diam) ]

\* _get_coefficients(crossection, cn): the value returned and the two
\* arguments as the call leaves them.  cn is an ndarray and is scaled in
\* place; crossection is a Series, which `*=` scales in place or rebinds
\* to a new Series depending on the pandas version (inplace)
_get_coefficients(crossection, cn, inplace) ==
    [ coefficient |-> ElemArrMul(TimesPow(cn, 6), TimesPow(crossection, -12)),
      crossection |-> IF inplace THEN TimesPow(crossection, -12) ELSE crossection,
      cn          |-> TimesPow(cn, 6) ]

\* the position of the first row of key lc, 0 if there is none
RowOf(f, lc) ==
    IF \E r \in 1..Len(f.index) : f.index[r] = lc
    THEN CHOOSE r \in 1..Len(f.index) : f.index[r] = lc /\ \A q \in 1..(r - 1) : f.index[q] # lc
    ELSE 0

\* sdls.data.loc[lc].values
laydataOf(f, r) == [i \in 1..Len(f.rows[r]) |-> Elem(f.rows[r][i], 0)]

\* what `cn *= 1e6` leaves in the table when laydata is a view of its row
Written(h, ref, r, cn) ==
    [h EXCEPT ![ref].rows[r] = [i \in 1..Len(cn) |-> VMul(cn[i].v, IF cn[i].u = 6 THEN VInt(1000000) ELSE VInt(1))]]

\* a slip: the thickness taken as the upper boundary
layerThicknessOf_upper(layerbounderies, i) == layerbounderies.v[i][2]

\* sdls.layerbounderies[i][1] - sdls.layerbounderies[i][0]
layerThicknessOf(layerbounderies, i) == RSub(layerbounderies.v[i][2], layerbounderies.v[i][1])

\* the state of the loop over the layers
LoopState(h, crossection, AOD_layer, extCoeffPerLayer, e) ==
    [ heap |-> h, crossection |-> crossection, AOD_layer |-> AOD_layer,
      extCoeffPerLayer |-> extCoeffPerLayer, exc |-> e ]

\* the body of the loop from the thickness on, g being what _get_coefficients gave
LayerDone(st, sdls, i, h, g) ==
    IF sdls.layerbounderies.ndim # 2
    THEN LoopState(h, g.crossection, st.AOD_layer, st.extCoeffPerLayer, "IndexError")
    ELSE LoopState(h, g.crossection,
                   Append(st.AOD_layer,
                          ElemSum(TimesRat(g.coefficient, layerThicknessOf(sdls.layerbounderies, i)))),
                   Append(st.extCoeffPerLayer, g.coefficient), "none")

\* the body of the loop for the layer of row r of the table
LayerAt(st, sdls, i, r, g, view) ==
    LayerDone(st, sdls, i, IF view THEN Written(st.heap, sdls.data, r, g.cn) ELSE st.heap, g)

\* for i, lc in enumerate(sdls.layercenters): ...
RECURSIVE LayerLoop(_, _, _, _, _)
LayerLoop(st, sdls, i, inplace, view) ==
    IF st.exc # "none" \/ i > Len(sdls.layercenters.v) THEN st
    ELSE IF RowOf(st.heap[sdls.data], sdls.layercenters.v[i]) = 0
    THEN [st EXCEPT !.exc = "KeyError"]
    ELSE LayerLoop(
             LayerAt(st, sdls, i, RowOf(st.heap[sdls.data], sdls.layercenters.v[i]),
                     _get_coefficients(st.crossection,
                                       laydataOf(st.heap[sdls.data],
                                                 RowOf(st.heap[sdls.data], sdls.layercenters.v[i])),
                                       inplace),
                     view),
             sdls, i + 1, inplace, view)

\* the dictionary returned, with the heap and the calculator calls made
Out(st, sdls, mie) ==
    [ heap |-> st.heap, exc |-> st.exc, calls |-> mie.calls,
      out |-> IF st.exc # "none" THEN None
              ELSE [ AOD |-> NSum(st.AOD_layer),
                     AOD_layer |-> [index |-> sdls.layercenters.v, values |-> st.AOD_layer],
                     extCoeffPerLayer |-> [index |-> sdls.layercenters.v,
                                           rows |-> st.extCoeffPerLayer] ] ]

Looped(c, mie, inplace, view) ==
    Out(LayerLoop(LoopState(c.heap, mie.extinction_crossection, <<>>, <<>>, "none"),
                  c.dist, 1, inplace, view),
        c.dist, mie)

MicroMeters(a) == [i \in 1..Len(a) |-> RDiv(a[i], RInt(1000))]

Converted(c, inplace, view) ==
    IF c.exc # "none" THEN [heap |-> c.heap, exc |-> c.exc, calls |-> 0, out |-> None]
    ELSE Looped(c, _perform_Miecalculations(MicroMeters(c.dist.bincenters)), inplace, view)

\* self.calculate_AOD(): [heap, exc, calls (of the Mie calculator), out]
calculate_AOD(h, slf, inplace, view) ==
    Converted(_convert2otherDistribution(h, slf, Wrappers.convert2numberconcentration), inplace, view)

(***************************************************************************)
(* Optical depth as a state machine: a host is built by the constructor,   *)
(* with the boundaries given or by add_layer calls, and calculate_AOD is   *)
(* called on it twice.  pre records the build: whether `*=` on a Series    *)
(* works in place, whether a row's values are a view of the table, and the *)
(* host's table as built.                                                  *)
(***************************************************************************)
AodKinds == {"dNdDp", "dNdlogDp", "numberConcentration"}

\* the sd given to the k-th add_layer call: one dNdDp row of the values k, k + 1, ..
AodSdFrame(k) == [index |-> <<RInt(0)>>, rows |-> << [i \in 1..NBins |-> VInt(k + i - 1)] >>]

\* sequences of up to MaxLayers pairs low < high, no two sharing an interior altitude
LayerPairs == { <<Alt(p[1]), Alt(p[2])>> : p \in { q \in (0..MaxAlt) \X (0..MaxAlt) : q[1] < q[2] } }

LayerSeqs ==
    { sq \in UNION { [1..n -> LayerPairs] : n \in 0..MaxLayers } :
        \A i, j \in 1..Len(sq) : i # j => ~Overlap(sq[i], sq[j]) }

\* host.add_layer(sd, pairs[k]) for k, k + 1, ..
RECURSIVE Built(_, _, _)
Built(host, pairs, k) ==
    IF k > Len(pairs) THEN host
    ELSE Built(add_layer(host, <<AodSdFrame(k)>>, SizeDist(1, GapBins, "dNdDp"), pairs[k]).host,
               pairs, k + 1)

\* the hosts: layers added to an empty host, and hosts constructed with
\* their boundaries (as edges, as the repository's own callers do, or as one pair)
AodHosts ==
    { Built(SizeDist_LS__init__(None, GapBins, k, None, TRUE), sq, 1) : k \in AodKinds, sq \in LayerSeqs }
    \cup { SizeDist_LS__init__(LayerTable(EdgesUpTo(n)), GapBins, k, Arr1(EdgesUpTo(n)), TRUE) :
             k \in AodKinds, n \in 1..2 }
    \cup { SizeDist_LS__init__(LayerTable(EdgesUpTo(1)), GapBins, k, Arr2(PairsUpTo(1)), TRUE) :
             k \in AodKinds }

InitAOD ==
    /\ \E host \in AodHosts, inplace \in BOOLEAN, view \in BOOLEAN :
          /\ ls = [host EXCEPT !.data = 1]
          /\ heap = <<host.data>>
          /\ pre = [inplace |-> inplace, view |-> view, data |-> host.data]
    /\ ret = None /\ ret2 = None
    /\ exc = "none"
    /\ last = [op |-> "__init__", calls |-> 0]
    /\ self = None /\ ts = None /\ sdarg = None

\* what the caller holds after a call: the host's table; the copy the call made is dropped
AfterCall(r) ==
    /\ heap' = <<r.heap[1]>>
    /\ exc' = r.exc
    /\ last' = [op |-> "calculate_AOD", calls |-> r.calls]

\* ret = ls.calculate_AOD()
CalculateAOD ==
    /\ ret = None /\ exc = "none"
    /\ AfterCall(calculate_AOD(heap, ls, pre.inplace, pre.view))
    /\ ret' = calculate_AOD(heap, ls, pre.inplace, pre.view).out
    /\ UNCHANGED <<ls, pre, ret2, self, ts, sdarg>>

\* ret2 = ls.calculate_AOD(), after a first call that returned
CalculateAODAgain ==
    /\ ret # None /\ ret2 = None
    /\ AfterCall(calculate_AOD(heap, ls, pre.inplace, pre.view))
    /\ ret2' = calculate_AOD(heap, ls, pre.inplace, pre.view).out
    /\ UNCHANGED <<ls, pre, ret, self, ts, sdarg>>

NextAOD == CalculateAOD \/ CalculateAODAgain

SpecAOD == InitAOD /\ [][NextAOD]_vars

(***************************************************************************)
(* Properties of the optical depth.                                        *)
(***************************************************************************)
\* a calculate_AOD call has returned its dictionary
AodReturned == last.op = "calculate_AOD" /\ ret # None

\* the layers of the result
AodLayers == 1..Len(ls.layercenters.v)

\* the number concentration of bin i of the host's row for layer j, by section 4.2
NumberConcentrationOf(j, i) ==
    IF ls.distributionType = "numberConcentration"
    THEN pre.data.rows[RowOf(pre.data, ls.layercenters.v[j])][i]
    ELSE VMul(Expected(pre.data.rows[RowOf(pre.data, ls.layercenters.v[j])][i],
                       ls.distributionType, "dNdDp", Center(ls.bins, i)),
              VRat(Width(ls.bins, i)))

\* the cross-section the Mie calculator returns for bin i
CrossSectionOf(i) == bhmie_hagen(RDiv(Center(ls.bins, i), RInt(1000)))

\* C14: in one calculate_AOD call the Mie calculator is called once per bin
\* center, and for every layer j and bin i the extinction coefficient
\* reported is numberConcentration[j][i] * 1e6 * crossSection[i] * 1e-12.
C14_ExtinctionCoefficient ==
    AodReturned =>
        /\ last.calls = NBins
        /\ \A j \in AodLayers : \A i \in 1..NBins :
              ret.extCoeffPerLayer.rows[j][i] =
                  Elem(VMul(NumberConcentrationOf(j, i), CrossSectionOf(i)), 6 - 12)

\* the boundary pair of the layer whose center is the j-th layer center
PairOfLayer(j) ==
    CHOOSE q \in { ls.layerbounderies.v[k] : k \in 1..Len(ls.layerbounderies.v) } :
        Half(RAdd(q[1], q[2])) = ls.layercenters.v[j]

\* high - low of that layer
ThicknessOfLayer(j) == RSub(PairOfLayer(j)[2], PairOfLayer(j)[1])

C20_AodReadOnly ==
    [][ /\ ls' = ls
        /\ heap'[ls'.data] = heap[ls.data]
        /\ (ret2' # None => ret2' = ret') ]_vars

\* two calls on a numberConcentration host of two layers, the values of a
\* row being a view of the table
C20_Witness ==
    /\ ret2 # None
    /\ ls.distributionType = "numberConcentration"
    /\ pre.view
    /\ Len(ls.layercenters.v) = 2
    /\ ret.AOD # {}
    /\ heap[ls.data] = pre.data

(***************************************************************************)
(* save_csv and read_distribution_csv.  A file is its sequence of lines:   *)
(* [kind, variable, value], of kind "assign" (variable = value), "hash"    *)
(* (a line beginning with #), "columns" and "row" (what to_csv writes) and *)
(* "text" (a line without =).  An object is [cls, keyType] with the fields *)
(* of a SizeDist, its table held as a value; keyType tells numbers from    *)
(* datetimes among the row keys.                                           *)
(***************************************************************************)
headerNo == 50

Assign(variable, value) == [kind |-> "assign", variable |-> variable, value |-> value]
HashLine == [kind |-> "hash", variable |-> "#", value |-> None]
ColumnsLine == [kind |-> "columns", variable |-> "", value |-> None]
RowLine(keyType, key, values) ==
    [kind |-> "row", variable |-> "", value |-> [keyType |-> keyType, key |-> key, values |-> values]]

\* self.data.to_csv(fname, mode='a')
to_csv(data, keyType) ==
    <<ColumnsLine>> \o [r \in 1..Len(data.index) |-> RowLine(keyType, data.index[r], data.rows[r])]

\* self.save_csv(fname): the lines of the file written
save_csv(obj) ==
    << Assign("bins", [list |-> obj.bins]),
       Assign("distributionType", obj.distributionType),
       Assign("objectType", obj.cls),
       HashLine >> \o to_csv(obj.data, obj.keyType)

\* the header loop left by break at line i (0-based), or by an exception
Broke(i, outDict) == [exc |-> "none", i |-> i, outDict |-> outDict]
Failed(i, e) == [exc |-> e, i |-> i, outDict |-> <<>>]

\* the loop ends at line i (0-based): the file has ended, the line begins
\* with #, the line has no =, or i is headerNo - 1
EndsLoop(lines, i) ==
    \/ i + 1 > Len(lines)
    \/ lines[i + 1].kind # "assign"
    \/ i = headerNo - 1

\* the first line (0-based) at which the loop ends
LastLine(lines) == CHOOSE i \in 0..(headerNo - 1) : EndsLoop(lines, i) /\ \A j \in 0..(i - 1) : ~EndsLoop(lines, j)

\* outDict after the first n lines: each variable with the value assigned last
OutDictOf(lines, n) ==
    [ v \in { lines[k].variable : k \in 1..n } |->
        lines[CHOOSE k \in 1..n : lines[k].variable = v /\ \A m \in (k + 1)..n : lines[m].variable # v].value ]

\* the body of the loop at the line i that ends it
LoopEnd(lines, i) ==
    IF i + 1 > Len(lines) THEN Failed(i, "IndexError")                 \* ''[0] at the end of the file
    ELSE IF lines[i + 1].kind = "hash" THEN Broke(i, OutDictOf(lines, i))
    ELSE IF lines[i + 1].kind # "assign" THEN Failed(i, "IndexError")  \* split[1] of a line without =
    ELSE Failed(i, "TypeError")                                        \* i == headerNo - 1

\* for i in range(headerNo): ...
HeaderLoop(lines) == LoopEnd(lines, LastLine(lines))

\* pd.read_csv(fname, header=header, index_col=0), then
\* data.index = pd.to_datetime(data.index)
read_csv(lines, header) ==
    [ index |-> [r \in 1..(Len(lines) - header - 1) |-> lines[header + 1 + r].value.key],
      rows  |-> [r \in 1..(Len(lines) - header - 1) |-> lines[header + 1 + r].value.values] ]

Loaded(cls, sd) == [exc |-> "none", obj |-> [cls |-> cls, keyType |-> "datetime"] @@ sd]
NotLoaded(e) == [exc |-> e, obj |-> None]

\* the dispatch on outDict['objectType']
Dispatch(outDict, data, fixGaps) ==
    IF outDict["objectType"] = "SizeDist_TS"
    THEN Loaded("SizeDist_TS",
                SizeDist__init__(data, outDict["bins"].list, outDict["distributionType"], fixGaps))
    ELSE IF outDict["objectType"] = "SizeDist"
    THEN Loaded("SizeDist",
                SizeDist__init__(data, outDict["bins"].list, outDict["distributionType"], fixGaps))
    ELSE IF outDict["objectType"] = "SizeDist_LS"
    THEN NotLoaded("TypeError")         \* SizeDist_LS(...) is called without layerbounderies
    ELSE NotLoaded("TypeError")

AfterHeader(lines, hd, fixGaps) ==
    IF hd.exc # "none" THEN NotLoaded(hd.exc)
    ELSE IF Len(lines) < hd.i + 2 \/ lines[hd.i + 2].kind # "columns" THEN NotLoaded("ParserError")
    ELSE IF {"objectType", "bins", "distributionType"} \ DOMAIN hd.outDict # {} THEN NotLoaded("KeyError")
    ELSE Dispatch(hd.outDict, read_csv(lines, hd.i + 1), fixGaps)

\* read_distribution_csv(fname, fixGaps): [exc, obj]
read_distribution_csv(lines, fixGaps) == AfterHeader(lines, HeaderLoop(lines), fixGaps)

(***************************************************************************)
(* Files as a state machine: self is an object built by a constructor with *)
(* its defaults and saved to the file pre, or pre is a file some other     *)
(* program wrote; the file is then read, the object read being ret.        *)
(***************************************************************************)
\* the tables saved: one row, even spacing, a spacing of 50 among spacings of 10
CsvTables ==
    { FrameOf(KeysFrom(ds, 0)) : ds \in { <<>>, <<10, 10>>, <<10, 10, 50>> } }

\* SizeDist and SizeDist_TS objects of every kind, keyed by numbers or by datetimes
\* (a time series by datetimes), and SizeDist_LS objects keyed by their layer centers
CsvObjects ==
    { [cls |-> "SizeDist", keyType |-> kt] @@ SizeDist__init__(t, GapBins, k, TRUE) :
        kt \in {"number", "datetime"}, t \in CsvTables, k \in AllKinds }
    \cup { [cls |-> "SizeDist_TS", keyType |-> "datetime"] @@ SizeDist__init__(t, GapBins, k, TRUE) :
             t \in CsvTables, k \in AllKinds }
    \cup { [cls |-> "SizeDist_LS", keyType |-> "number"]
              @@ SizeDist_LS__init__(LayerTable(EdgesUpTo(n)), GapBins, k, Arr1(EdgesUpTo(n)), TRUE) :
             n \in 1..2, k \in AllKinds }

\* the body of a foreign file: the column line and one row
ForeignBody == <<ColumnsLine, RowLine("datetime", RInt(0), [i \in 1..NBins |-> VInt(1)])>>

\* n header lines: the three the loader needs, then others of the form x = 1
HeaderLines(n) ==
    [i \in 1..n |->
        IF i = 1 THEN Assign("bins", [list |-> GapBins])
        ELSE IF i = 2 THEN Assign("distributionType", "dNdDp")
        ELSE IF i = 3 THEN Assign("objectType", "SizeDist")
        ELSE Assign("x", [list |-> <<>>])]

\* files of 3..headerNo+1 header lines, followed by the # line and the body,
\* by nothing (the file ends), or by the body with no # line
ForeignFiles ==
    { HeaderLines(n) \o <<HashLine>> \o ForeignBody : n \in 3..(headerNo + 1) }
    \cup { HeaderLines(n) : n \in 3..(headerNo + 1) }
    \cup { HeaderLines(n) \o ForeignBody : n \in 3..(headerNo + 1) }

InitCsv ==
    /\ \/ self \in CsvObjects /\ pre = None
       \/ self = None /\ pre \in ForeignFiles
    /\ ret = None
    /\ exc = "none"
    /\ last = [op |-> "none", fixGaps |-> TRUE]
    /\ heap = <<>> /\ ret2 = None /\ ts = None /\ ls = None /\ sdarg = None

\* self.save_csv(fname)
SaveCsv ==
    /\ self # None /\ pre = None
    /\ pre' = save_csv(self)
    /\ last' = [op |-> "save_csv", fixGaps |-> TRUE]
    /\ UNCHANGED <<self, ret, exc, heap, ret2, ts, ls, sdarg>>

\* ret = read_distribution_csv(fname, fixGaps)
ReadCsv(fixGaps) ==
    /\ pre # None /\ last.op # "read_distribution_csv"
    /\ ret' = read_distribution_csv(pre, fixGaps).obj
    /\ exc' = read_distribution_csv(pre, fixGaps).exc
    /\ last' = [op |-> "read_distribution_csv", fixGaps |-> fixGaps]
    /\ UNCHANGED <<self, pre, heap, ret2, ts, ls, sdarg>>

NextCsv == SaveCsv \/ \E fixGaps \in BOOLEAN : ReadCsv(fixGaps)

SpecCsv == InitCsv /\ [][NextCsv]_vars

\* the object was saved and the file read with the default arguments
RoundTrip == self # None /\ last.op = "read_distribution_csv" /\ last.fixGaps

\* C16: an object of any of the three classes and of any kind, saved with
\* save_csv and read with read_distribution_csv(fname), is read without an
\* error as an object of the same class, bin edges and kind, with the same
\* row keys and the same row values.
C16_CsvRoundTrip ==
    RoundTrip =>
        /\ exc = "none"
        /\ ret # None
        /\ ret.cls = self.cls
        /\ ret.bins = self.bins
        /\ ret.distributionType = self.distributionType
        /\ ret.keyType = self.keyType
        /\ ret.data = self.data

\* a file some other program wrote has been read
ForeignRead == self = None /\ last.op = "read_distribution_csv"

\* a line beginning with # is among the first headerNo lines of the file
HashInBudget == \E k \in 1..headerNo : k <= Len(pre) /\ pre[k].kind = "hash"

\* C18: if a line beginning with # is among the first 50 lines of the file,
\* the header is accepted and the object is read; if none is, whether the
\* file goes on or ends before its 50th line, the load raises TypeError and
\* returns no object.
C18_HeaderBudget ==
    ForeignRead =>
        /\ HashInBudget => (exc = "none" /\ ret # None)
        /\ ~HashInBudget => (exc = "TypeError" /\ ret = None)

(***************************************************************************)
(* Gap filling at construction.                                            *)
(***************************************************************************)
\* the table the constructor was given (an empty one for None)
GivenTable == IF pre = None THEN EmptyFrame ELSE pre

\* C17: when one of the three classes is constructed, gap filling runs only
\* if fixGaps was passed true; with fixGaps=False the table of the object
\* is the data given, no row added; and a construction in which it runs
\* does not fail, and warns of as many gaps as the data has.
C17_GapFillingConditional ==
    (ts # None /\ last.op = "__init__") =>
        /\ last.ran => last.fixGaps
        /\ ~last.fixGaps => ts.data = GivenTable
        /\ exc = "none"
        /\ last.ran => last.gaps = Cardinality(GapsOf(pre, DefaultScale))

\* the call was given a layerboundery not of length 2, an sd the converter
\* does not convert, or a pair that fails the overlap test
RaisesAsListed ==
    /\ IsAddLayer
    /\ \/ Len(last.layerboundery) # 2
       \/ pre.sd.kind = "calibration"
       \/ ( /\ Before.layerbounderies.ndim = 2
            /\ ~Consecutive(last.layerboundery[1], last.layerboundery[2]) )

\* C19: an add_layer call given a layerboundery not of length 2, an sd of a
\* kind the converter rejects, or an overlapping pair raises and leaves the
\* host's layer boundaries, layer centers, table, bins and kind exactly as
\* they were, so that the next add_layer call starts from the same host.
C19_AddLayerFailureAtomic ==
    RaisesAsListed => (exc = "ValueError" /\ ls = Before)

\* a host holding one layer rejected an overlapping pair and is as it was
C19_Witness ==
    /\ RaisesAsListed
    /\ Len(last.layerboundery) = 2
    /\ pre.sd.kind = "dNdDp"
    /\ pre.layerbounderies = None
    /\ Len(Before.layerbounderies.v) = 1
    /\ Overlap(Before.layerbounderies.v[1], last.layerboundery)
    /\ ls = Before

(***************************************************************************)
(* Two conversions in a row against one conversion.                        *)
(***************************************************************************)
\* the six axis kinds and numberConcentration
ConvertibleKinds == AxisKinds \cup {"numberConcentration"}

\* ret2 = self._convert2otherDistribution(k2)._convert2otherDistribution(k3),
\* with self of a kind k1, and k1, k2, k3 all convertible kinds
IsTwoStep ==
    /\ last.op = "again"
    /\ ~last.modified
    /\ self.distributionType \in ConvertibleKinds
    /\ last.first \in ConvertibleKinds
    /\ last.distType \in ConvertibleKinds

\* the call returned an instance of the kind and the per-bin values of ret2
SameAsRet2(direct) ==
    /\ direct.exc = "none"
    /\ direct.dist.distributionType = ret2.distributionType
    /\ direct.heap[direct.dist.data].rows = Rows(ret2)
    /\ direct.heap[direct.dist.data].index = Index(ret2)

\* C21: for kinds k1, k2, k3 among the six axis kinds and numberConcentration
\* and every table of kind k1, converting it to k2 and the result to k3
\* succeeds and gives the kind and the per-bin values (exact arithmetic) that
\* converting the table to k3 in one call gives.
C21_PathIndependence ==
    IsTwoStep =>
        ( /\ exc = "none"
          /\ ret2 # None
          /\ ret2.distributionType = last.distType
          /\ SameAsRet2(_convert2otherDistribution(heap, self, last.distType)) )

\* dSdDp -> numberConcentration -> dVdlogDp of a two-row table: three tables
\* that differ from one another
C21_Witness ==
    /\ IsTwoStep
    /\ self.distributionType = "dSdDp"
    /\ last.first = "numberConcentration"
    /\ last.distType = "dVdlogDp"
    /\ ret2 # None
    /\ Len(Rows(self)) = 2
    /\ Rows(ret) # Rows(self)
    /\ Rows(ret2) # Rows(ret)
    /\ Rows(ret2) # Rows(self)

(***************************************************************************)
(* What fillGaps keeps, where it puts its rows, and a second call.         *)
(***************************************************************************)
\* every row the table had before the call is there after it, key and values
RowsKept(before, after) ==
    \A q \in 1..Len(before.index) :
        \E r \in 1..Len(after.index) :
            after.index[r] = before.index[q] /\ after.rows[r] = before.rows[q]

\* the keys the call added
NewKeys(before, after) ==
    { after.index[r] : r \in 1..Len(after.index) } \ { before.index[q] : q \in 1..Len(before.index) }

\* key lies strictly between the keys on the two sides of a gap of the table
InsideAGap(f, scale, key) ==
    \E i \in GapsOf(f, scale) : RLess(f.index[i], key) /\ RLess(key, f.index[i + 1])

\* a fillGaps call on a table that a fillGaps call of the same scale left
IsRefill ==
    /\ last.ran
    /\ last'.op = "fillGaps"
    /\ last'.scale = last.scale

\* C22: fillGaps never changes the key or the values of a row the table had
\* before the call, every key it adds lies strictly between the start and the
\* end key of a gap, and a fillGaps call on a table that fillGaps has already
\* filled (at the same scale) adds no further row.
C22_GapFillingIdempotent ==
    /\ [](last.ran =>
            /\ RowsKept(pre, ts.data)
            /\ \A key \in NewKeys(pre, ts.data) : InsideAGap(pre, last.scale, key))
    /\ [][IsRefill => Len(ts'.data.index) = Len(ts.data.index)]_vars

====
